---- MODULE Spec2Model ----
(***************************************************************************)
(* State-machine model of the trading dashboard's client-side              *)
(* reconciliation core: the live-feed hook (useLiveFeed: transport          *)
(* lifecycle, frame decoding, price store, raw buffers) and the App         *)
(* component's effects (trade merge, history ring, highlight, snapshot      *)
(* fetches).  Every handler, timer callback, fetch completion and React     *)
(* effect is one atomic action, as on the single-threaded event loop.       *)
(***************************************************************************)
EXTENDS Integers, Sequences, FiniteSets, TLC

\* ---------------------------------------------------------------- bounds
\* Frames delivered in the specification of the whole system.
MaxFrames == 1
\* Transports constructed in the specification of the whole system.
MaxSocketsAll == 2
\* Price frames delivered in the price-store specification.
MaxPriceFrames == 2
\* Trade frames delivered in the trade-merger specification.
MaxTradeFrames == 4
\* Trade frames delivered in the burst specification (a fresh trade id per frame).
MaxBurst == 102
\* Transports (WebSocket objects) ever constructed.
MaxSockets == 5
\* Manual refreshes and order submissions (button clicks).
MaxRefresh == 1
\* Milliseconds of time that pass in the specification of the whole system.
MaxTimeAll == 1500
\* Order frames delivered in the order-reconciler specification.
MaxOrderFrames == 2
\* Milliseconds of time that pass in the order-reconciler specification.
MaxTime == 3000
\* Frames delivered in the decoder specification.
MaxDecodeFrames == 3
\* Price frames delivered in the ticker-resolver specification.
MaxTickerFrames == 2
\* Price frames delivered in the ticker-panel specification.
MaxPanelFrames == 2
\* Transports constructed in the restart specification.
MaxSocketsRestart == 4
\* Order frames delivered in the re-fetch specification.
MaxRefetchFrames == 2
\* Order frames, then trade frames, delivered in the buffer specification.
MaxOrderBurst == 52
MaxTradeBurst == 202

\* ------------------------------------------------------ program constants
TradesCap == 100
RawTradesCap == 200
OrderUpdatesCap == 50
HistoryKeep == 9
HistoryLimit == 10
HighlightDelay == 1500
\* The time unit: half a highlight window.
TickMs == HighlightDelay \div 2

\* JavaScript null / undefined / absent key.
NULL == -1

\* ----------------------------------------------------------- input sets
Symbols == {"A", "B"}
PriceValues == {100, 105}
OpenValues == {NULL, 0, 100}
OrderIds == {1, 2}

VARIABLES
  phase,            \* "init" before the mount effects ran, "mounted", "torn" after the cleanups
  status,           \* useLiveFeed: ConnectionStatus
  prices,           \* useLiveFeed: object symbol -> [price, prev, open] (DOMAIN = its keys)
  priceKeys,        \* Object.keys(prices): the keys of prices in insertion order
  orderUpdates,     \* useLiveFeed: raw order_update buffer, newest first
  newTrades,        \* useLiveFeed: raw new_trade buffer, newest first
  wsRef,            \* useLiveFeed: id of the socket in wsRef.current, 0 = null
  reconnectRef,     \* useLiveFeed: id of the timer in reconnectRef.current, 0 = null
  sock,             \* the WebSocket objects: id -> readyState
  nsock,            \* number of WebSocket objects constructed so far
  timers,           \* pending reconnect timers (a timer is named by the socket whose onclose set it)
  clock,            \* history: the number of frames onmessage was given so far
  time,             \* Date.now(), in milliseconds since construction
  lastFrame,        \* history: the frame the latest onmessage call was given
  errored,          \* history: the sockets whose error event fired
  teardownLog,      \* history: what the hook's cleanup found when it ran
  orders,           \* App: open orders as last fetched
  trades,           \* App: displayed trade list, newest first
  tickers,          \* App: ticker list
  highlightId,      \* App: highlighted order id or NULL
  historyBySymbol,  \* App: object symbol -> samples, oldest first (DOMAIN = its keys)
  hlTimers,         \* pending highlight-clear timers: [id: the handle setTimeout returned, due: time]
  hlLast,           \* the timer the latest run of the highlight effect created, NoTimer = none
  dirty,            \* effects of the latest commit React still has to run: subset of
                    \* {"orderUpdates","newTrades","prices","fallback"}
  ordersInFlight,   \* fetchOpenOrders requests awaiting their response (issue numbers)
  ordersIssued,     \* fetchOpenOrders requests issued so far
  tradesInFlight,   \* fetchRecentTrades requests awaiting their response (issue numbers)
  tradesIssued,     \* fetchRecentTrades requests issued so far
  tickersFetch,     \* "idle", "pending" (fetchTickers), "backfill" (Promise.all of fetchPriceHistory), "done", "failed"
  backfillSyms,     \* the symbols whose history the pending backfill asked for
  clicks,           \* manual refreshes and order submissions so far
  lastFetch,        \* history: the fetch that completed last and its outcome
  panel,            \* TickerPanel: what the latest render shows, symbol -> day-change row
  stale,            \* the sockets that belong to a former instance of the component
  placing,          \* OrderEntryForm: createOrder requests awaiting their response, [own: the mounted
                    \* form's (busy), former: how many of former instances' forms]
  queued,           \* state set since the latest commit: the effects it makes due, "render" for the rest
  committed              \* the state as of the latest commit: what the closures of its effects hold

connVars == <<status, wsRef, reconnectRef, sock, nsock, timers, teardownLog, errored>>
feedVars == <<prices, priceKeys, orderUpdates, newTrades, clock, time, lastFrame>>
appVars == <<orders, trades, tickers, highlightId, historyBySymbol, hlTimers, hlLast, dirty>>
fetchVars == <<ordersInFlight, ordersIssued, tradesInFlight, tradesIssued, tickersFetch, backfillSyms,
               clicks, lastFetch>>
vars == <<phase, connVars, feedVars, appVars, fetchVars, panel, stale, placing, queued, committed>>

SockIds == 1..(MaxSockets + 1)

\* -------------------------------------------------------------- helpers
\* Array.prototype.slice(0, n)
Take(s, n) == SubSeq(s, 1, IF Len(s) < n THEN Len(s) ELSE n)

\* Array.prototype.slice(-n)
LastN(s, n) == SubSeq(s, IF Len(s) > n THEN Len(s) - n + 1 ELSE 1, Len(s))

Range(s) == {s[i] : i \in DOMAIN s}

\* obj[k] || []
GetOr(obj, k) == IF k \in DOMAIN obj THEN obj[k] ELSE <<>>

\* { ...obj, [k]: v }
Put(obj, k, v) == [x \in (DOMAIN obj) \cup {k} |-> IF x = k THEN v ELSE obj[x]]

EmptyObj == [x \in {} |-> 0]

\* The state a render reads, and the closures of its effects with it.
Rendered(tks, pr, keys, ords, ups, nts, hist) ==
  [tickers |-> tks, prices |-> pr, priceKeys |-> keys, orders |-> ords, orderUpdates |-> ups,
   newTrades |-> nts, historyBySymbol |-> hist]

\* The first render: every useState at its initial value.
FirstRender == Rendered(<<>>, EmptyObj, <<>>, <<>>, <<>>, <<>>, EmptyObj)

\* The effects of App, by the state they depend on.
Effects == {"orderUpdates", "newTrades", "prices", "fallback"}

\* React drops a state update made after the component's cleanup ran.
Live == phase = "mounted"

\* The stamp of an entry whose functional updater React has not run yet. It compares as
\* later than every time reached, as the Date.now() it will be given is.
Pending == 2147483647

\* Date.now() inside a functional updater of the hook (setOrderUpdates, setTrades), read
\* when React runs the updater. That is at the next render of App, or at once, in the
\* call of the setter, when neither fiber of App has an update pending: so it is once a
\* child has rendered alone since App's last render (OrderEntryForm: its ticker effect,
\* a keystroke in a field, a submission or its answer), which can be at any time App
\* has nothing to render and no effect to run. The updater of the history effect runs
\* right after a render of App and so always at the next one.
DateNow == IF queued = {} /\ dirty = {} THEN {time, Pending} ELSE {Pending}

\* The render gives the entries of the updaters still pending their stamp.
Stamped(buf, now) ==
  [k \in DOMAIN buf |-> IF buf[k]._ts = Pending THEN [buf[k] EXCEPT !._ts = now] ELSE buf[k]]

StampedHistory(hist, now) ==
  [s \in DOMAIN hist |->
     [k \in DOMAIN hist[s] |-> IF hist[s][k].timestamp = Pending
                               THEN [hist[s][k] EXCEPT !.timestamp = now]
                               ELSE hist[s][k]]]

\* Socket i belongs to the mounted instance: the state updates of its handlers apply.
LiveFor(i) == Live /\ i \notin stale

\* No timer: the value of a timer handle before any setTimeout.
NoTimer == [id |-> 0, due |-> 0]

\* clearTimeout(t) on the pending timers ts
ClearTimeoutNoop(ts, t) == ts

ClearTimeout(ts, t) == ts \ {t}

\* const u = orderUpdates[0]
LatestOldest(arr) == arr[Len(arr)]

Latest(arr) == arr[1]

\* ----------------------------------------------------------- price store
\* The setPrices updater of a price_update frame {ticker: s, price: p, open: o}.
ApplyPriceOwnValue(pr, s, p, o) ==
  Put(pr, s, [price |-> p, prev |-> p,
              open |-> IF o # NULL THEN o ELSE IF s \in DOMAIN pr THEN pr[s].open ELSE NULL])

ApplyPriceOpenReset(pr, s, p, o) ==
  Put(pr, s, [price |-> p, prev |-> IF s \in DOMAIN pr THEN pr[s].price ELSE NULL, open |-> o])

ApplyPrice(pr, s, p, o) ==
  LET prevTicker == IF s \in DOMAIN pr THEN pr[s].price ELSE NULL
      prevOpen == IF s \in DOMAIN pr THEN pr[s].open ELSE NULL
      openVal == IF o # NULL THEN o ELSE prevOpen
  IN Put(pr, s, [price |-> p, prev |-> prevTicker, open |-> openVal])

\* ---------------------------------------------------------- ticker panel
\* prices[sym] || {} : the fields of an absent entry are undefined
LiveOf(pr, s) == IF s \in DOMAIN pr THEN pr[s] ELSE [price |-> NULL, prev |-> NULL, open |-> NULL]

\* The day change TickerPanel computes for one symbol from its live entry and its
\* history. pct = (changeDay / denom) * 100 is kept as the fraction pctNum / denom.
DayChangeOpenFromLatest(live, hist) ==
  LET pLive == live.price
      histCurr == IF Len(hist) >= 1 THEN hist[Len(hist)].price ELSE NULL
      p == IF pLive # NULL THEN pLive ELSE histCurr
      open == IF live.open # NULL THEN live.open
              ELSE IF Len(hist) > 0 THEN hist[Len(hist)].price ELSE NULL
      changeDay == IF p # NULL /\ open # NULL THEN p - open ELSE 0
      denom == IF open # NULL /\ open # 0 THEN open ELSE (IF p # NULL /\ p # 0 THEN p ELSE 1)
  IN [live |-> live, hist |-> hist, p |-> p, open |-> open, changeDay |-> changeDay,
      denom |-> denom, pctNum |-> changeDay * 100]

DayChangeDenomOpen(live, hist) ==
  LET pLive == live.price
      histCurr == IF Len(hist) >= 1 THEN hist[Len(hist)].price ELSE NULL
      p == IF pLive # NULL THEN pLive ELSE histCurr
      open == IF live.open # NULL THEN live.open
              ELSE IF Len(hist) > 0 THEN hist[1].price ELSE NULL
      changeDay == IF p # NULL /\ open # NULL THEN p - open ELSE 0
      denom == IF open # NULL THEN open ELSE (IF p # NULL /\ p # 0 THEN p ELSE 1)
  IN [live |-> live, hist |-> hist, p |-> p, open |-> open, changeDay |-> changeDay,
      denom |-> denom, pctNum |-> changeDay * 100]

DayChange(live, hist) ==
  LET pLive == live.price
      histCurr == IF Len(hist) >= 1 THEN hist[Len(hist)].price ELSE NULL
      p == IF pLive # NULL THEN pLive ELSE histCurr
      open == IF live.open # NULL THEN live.open
              ELSE IF Len(hist) > 0 THEN hist[1].price ELSE NULL
      changeDay == IF p # NULL /\ open # NULL THEN p - open ELSE 0
      denom == IF open # NULL /\ open # 0 THEN open ELSE (IF p # NULL /\ p # 0 THEN p ELSE 1)
  IN [live |-> live, hist |-> hist, p |-> p, open |-> open, changeDay |-> changeDay,
      denom |-> denom, pctNum |-> changeDay * 100]

\* The symbols TickerPanel shows: the tickers', else the keys of prices.
PanelSymbols(tks, keys) ==
  IF Len(tks) > 0 THEN {tks[k].symbol : k \in DOMAIN tks} ELSE Range(keys)

\* Prices a frame may carry in the ticker-panel specification (NULL: no price field).
PanelPrices == {NULL, 0, 50, 100, 105}

\* ---------------------------------------------------------- trade merger
\* A new_trade frame as the server sends it for trade id.
TradeMsg(id) == [type |-> "new_trade", trade_id |-> id, order_id |-> 1 + (id % 2), price |-> 100]

\* A row of the /trades/recent snapshot for trade id.
TradeRow(id) == [trade_id |-> id, order_id |-> 1 + (id % 2), product |-> "CNC", average_price |-> 100]

\* The .map of the merge effect: a stream event in display form.
ToDisplay(t) ==
  [trade_id |-> t.trade_id, order_id |-> t.order_id, product |-> "MIS", average_price |-> t.price]

Ids(s) == [i \in DOMAIN s |-> s[i].trade_id]

\* The .filter of the merge effect, with its two sets seen and added, then the .map.
RECURSIVE FreshNoBatchDedup(_, _, _)
FreshNoBatchDedup(batch, seen, added) ==
  IF batch = <<>> THEN <<>>
  ELSE LET t == Head(batch)
       IN IF t.trade_id \in seen
          THEN FreshNoBatchDedup(Tail(batch), seen, added)
          ELSE <<ToDisplay(t)>> \o FreshNoBatchDedup(Tail(batch), seen, added)

RECURSIVE Fresh(_, _, _)
Fresh(batch, seen, added) ==
  IF batch = <<>> THEN <<>>
  ELSE LET t == Head(batch)
       IN IF t.trade_id \in seen \/ t.trade_id \in added
          THEN Fresh(Tail(batch), seen, added)
          ELSE <<ToDisplay(t)>> \o Fresh(Tail(batch), seen, added \cup {t.trade_id})

\* The setTrades updater of the merge effect.
MergeTradesAppend(prev, batch) ==
  Take(prev \o Fresh(batch, Range(Ids(prev)), {}), TradesCap)

MergeTrades(prev, batch) ==
  Take(Fresh(batch, Range(Ids(prev)), {}) \o prev, TradesCap)

\* --------------------------------------------------------- history ring
\* One symbol's step of the history effect: slice(-9), push.
RecordOneNoSlice(arr, p, now) ==
  Append(arr, [price |-> p, timestamp |-> now])

RecordOne(arr, p, now) ==
  Append(LastN(arr, HistoryKeep), [price |-> p, timestamp |-> now])

\* The setHistoryBySymbol updater of the history effect.
RecordAll(hist, pr, now) ==
  [x \in (DOMAIN hist) \cup {s \in DOMAIN pr : pr[s].price # NULL} |->
     IF x \in DOMAIN pr /\ pr[x].price # NULL
     THEN RecordOne(GetOr(hist, x), pr[x].price, now)
     ELSE hist[x]]

\* --------------------------------------------------- collaborator answers
SeqDown(hi, n) == [i \in 1..n |-> TradeRow(hi + 1 - i)]

\* /trades/recent answers: duplicate-free, at most 100 rows.
TradeSnapshots ==
  { <<>>, <<TradeRow(5), TradeRow(6)>>, SeqDown(TradesCap + 7, TradesCap) }

\* Trade ids the stream sends: 6 and 7 as in the worked example, 8 the oldest row of the full snapshot.
StreamTradeIds == {6, 7, 8}

OrderRow(id, sym) == [order_id |-> id, ticker |-> sym]

OrderSnapshots == { <<>>, <<OrderRow(1, "B")>>, <<OrderRow(1, "B"), OrderRow(2, "C"), OrderRow(3, "B")>> }

\* A ticker entry { symbol: s }
SymRow(s) == [symbol |-> s]

\* /tickers answers, sorted by symbol.
TickerSnapshots == { <<>>, <<SymRow("A")>>, <<SymRow("A"), SymRow("B")>> }

\* ------------------------------------------------ ticker universe resolver
\* Array.from(new Set(xs)): the distinct elements in order of first occurrence
RECURSIVE Dedup(_, _)
Dedup(xs, seen) ==
  IF xs = <<>> THEN <<>>
  ELSE IF Head(xs) \in seen THEN Dedup(Tail(xs), seen)
       ELSE <<Head(xs)>> \o Dedup(Tail(xs), seen \cup {Head(xs)})

\* The fallback effect's derived list: the price store's keys, else the orders' symbols.
DeriveOrdersFirst(keys, ords) ==
  LET orderSyms == Dedup([i \in DOMAIN ords |-> ords[i].ticker], {})
      derived == IF Len(orderSyms) > 0 THEN orderSyms ELSE keys
  IN [i \in DOMAIN derived |-> SymRow(derived[i])]

Derive(keys, ords) ==
  LET orderSyms == Dedup([i \in DOMAIN ords |-> ords[i].ticker], {})
      derived == IF Len(keys) > 0 THEN keys ELSE orderSyms
  IN [i \in DOMAIN derived |-> SymRow(derived[i])]

\* The frames the switch has no case for: text that does not parse, a message with no
\* type, a message of a type the client does not know.
BadFrames == { [type |-> "(unparsable)"], [type |-> "(missing)"], [type |-> "heartbeat"] }

\* The answer to the r-th fetch of the open orders, when every fetch finds one more
\* order on the server than the fetch before it.
AnswerTo(r) == [k \in 1..r |-> OrderRow(k, "B")]

\* /prices/{symbol}?limit=10 answers of n ticks, most recent last; the ticks were taken
\* before the component was constructed (time 0), one per millisecond.
Ticks(n) == [i \in 1..n |-> [price |-> i, timestamp |-> i - n - 1]]

BackfillAnswers == { Ticks(HistoryLimit - 1), Ticks(HistoryLimit), Ticks(HistoryLimit + 1) }

\* --------------------------------------------------- connection manager
\* connect(): setStatus('connecting'); new WebSocket; wsRef.current = ws
ConnectEffectNoStatus(live) ==
  /\ status' = status
  /\ nsock' = nsock + 1
  /\ sock' = [sock EXCEPT ![nsock + 1] = "connecting"]
  /\ wsRef' = nsock + 1

ConnectEffect(live) ==
  /\ status' = IF live THEN "connecting" ELSE status
  /\ nsock' = nsock + 1
  /\ sock' = [sock EXCEPT ![nsock + 1] = "connecting"]
  /\ wsRef' = nsock + 1

\* ws.onclose of socket i: setStatus('disconnected'); reconnectRef.current = setTimeout(connect, 1500)
OnCloseNoReschedule(i) ==
  /\ status' = IF LiveFor(i) THEN "disconnected" ELSE status
  /\ UNCHANGED <<timers, reconnectRef>>

OnClose(i) ==
  /\ status' = IF LiveFor(i) THEN "disconnected" ELSE status
  /\ timers' = timers \cup {i}
  /\ reconnectRef' = IF i \in stale THEN reconnectRef ELSE i

\* connect() of a former instance: its setStatus is dropped and its wsRef is not the
\* mounted instance's; the WebSocket is constructed all the same.
ConnectStale ==
  /\ nsock' = nsock + 1
  /\ sock' = [sock EXCEPT ![nsock + 1] = "connecting"]
  /\ stale' = stale \cup {nsock + 1}
  /\ UNCHANGED <<status, wsRef>>

\* fetchOpenOrders() / fetchRecentTrades() issued
IssueOrders == 
  /\ ordersIssued' = ordersIssued + 1
  /\ ordersInFlight' = ordersInFlight \cup {ordersIssued + 1}

IssueTrades ==
  /\ tradesIssued' = tradesIssued + 1
  /\ tradesInFlight' = tradesInFlight \cup {tradesIssued + 1}

Init ==
  /\ phase = "init"
  /\ status = "disconnected"
  /\ prices = EmptyObj
  /\ priceKeys = <<>>
  /\ orderUpdates = <<>>
  /\ newTrades = <<>>
  /\ wsRef = 0
  /\ reconnectRef = 0
  /\ sock = [i \in SockIds |-> "none"]
  /\ nsock = 0
  /\ timers = {}
  /\ clock = 0
  /\ time = 0
  /\ lastFrame = [type |-> "none"]
  /\ errored = {}
  /\ teardownLog = [ran |-> FALSE, status |-> "disconnected", timerPending |-> FALSE, nsock |-> 0]
  /\ orders = <<>>
  /\ trades = <<>>
  /\ tickers = <<>>
  /\ highlightId = NULL
  /\ historyBySymbol = EmptyObj
  /\ hlTimers = {}
  /\ hlLast = NoTimer
  /\ dirty = {}
  /\ ordersInFlight = {}
  /\ ordersIssued = 0
  /\ tradesInFlight = {}
  /\ tradesIssued = 0
  /\ tickersFetch = "idle"
  /\ backfillSyms = {}
  /\ clicks = 0
  /\ panel = EmptyObj
  /\ stale = {}
  /\ placing = [own |-> FALSE, former |-> 0]
  /\ queued = {}
  /\ committed = FirstRender
  /\ lastFetch = [kind |-> "none", ok |-> TRUE, data |-> <<>>]

\* The mount effects: useLiveFeed's connect(), App's refreshOrders(); refreshTrades(); fetchTickers().
\* The other effects (fallback, highlight, merge, history) return at once on the empty
\* initial state.
Mount ==
  /\ phase = "init"
  /\ phase' = "mounted"
  /\ ConnectEffect(TRUE)
  /\ IssueOrders
  /\ IssueTrades
  /\ tickersFetch' = "pending"
  /\ UNCHANGED <<reconnectRef, timers, teardownLog, errored, feedVars, appVars, backfillSyms, clicks, lastFetch,
                 panel, stale, placing, queued, committed>>

\* ws.onopen
TransportOpen(i) ==
  /\ sock[i] = "connecting"
  /\ sock' = [sock EXCEPT ![i] = "open"]
  /\ status' = IF LiveFor(i) THEN "connected" ELSE status
  /\ UNCHANGED <<phase, panel, stale, placing, queued, committed, wsRef, reconnectRef, nsock, timers, teardownLog, errored, feedVars, appVars, fetchVars>>

\* ws.onerror = () => ws.close(): the socket starts closing, its close event follows
TransportError(i) ==
  /\ sock[i] \in {"connecting", "open"}
  /\ sock' = [sock EXCEPT ![i] = "closing"]
  /\ errored' = errored \cup {i}
  /\ UNCHANGED <<phase, panel, stale, placing, queued, committed, status, wsRef, reconnectRef, nsock, timers, teardownLog, feedVars, appVars, fetchVars>>

\* The close event of socket i (remote close, or the end of a close() call): ws.onclose
TransportClose(i) ==
  /\ sock[i] \in {"connecting", "open", "closing"}
  /\ sock' = [sock EXCEPT ![i] = "closed"]
  /\ OnClose(i)
  /\ UNCHANGED <<phase, panel, stale, placing, queued, committed, wsRef, nsock, teardownLog, errored, feedVars, appVars, fetchVars>>

\* The reconnect timer set by socket t's onclose fires: connect()
ReconnectTimer(t) ==
  /\ t \in timers
  /\ timers' = timers \ {t}
  /\ IF t \in stale THEN ConnectStale ELSE ConnectEffect(Live) /\ stale' = stale
  /\ UNCHANGED <<phase, panel, placing, queued, committed, reconnectRef, teardownLog, errored, feedVars, appVars, fetchVars>>

\* The cleanup of useLiveFeed's effect: clearTimeout(reconnectRef.current); wsRef.current.close()
TeardownHookNoClear ==
  /\ timers' = timers
  /\ sock' = IF wsRef # 0 /\ sock[wsRef] \in {"connecting", "open"}
             THEN [sock EXCEPT ![wsRef] = "closing"]
             ELSE sock
  /\ teardownLog' = [ran |-> TRUE, status |-> status,
                     timerPending |-> reconnectRef \in timers, nsock |-> nsock]
  /\ UNCHANGED <<status, wsRef, reconnectRef, nsock, errored>>

TeardownHook ==
  /\ timers' = timers \ {reconnectRef}
  /\ sock' = IF wsRef # 0 /\ sock[wsRef] \in {"connecting", "open"}
             THEN [sock EXCEPT ![wsRef] = "closing"]
             ELSE sock
  /\ teardownLog' = [ran |-> TRUE, status |-> status,
                     timerPending |-> reconnectRef \in timers, nsock |-> nsock]
  /\ UNCHANGED <<status, wsRef, reconnectRef, nsock, errored>>

\* Unmount: the cleanups of useLiveFeed's effect and of the highlight effect (clearTimeout(t)).
Teardown ==
  /\ phase = "mounted"
  /\ phase' = "torn"
  /\ TeardownHook
  /\ hlTimers' = ClearTimeout(hlTimers, hlLast)
  /\ UNCHANGED <<feedVars, orders, trades, tickers, highlightId, historyBySymbol, hlLast, dirty, fetchVars,
                 panel, stale, placing, queued, committed>>

\* The component is mounted again, as a new instance: fresh state and refs, the mount
\* effects run. The sockets and reconnect timers of the former instance live on; the
\* answers to its fetches are dropped.
Restart ==
  /\ phase = "torn"
  /\ phase' = "mounted"
  /\ stale' = 1..nsock
  /\ ConnectEffect(TRUE)
  /\ reconnectRef' = 0
  /\ prices' = EmptyObj
  /\ priceKeys' = <<>>
  /\ orderUpdates' = <<>>
  /\ newTrades' = <<>>
  /\ orders' = <<>>
  /\ trades' = <<>>
  /\ tickers' = <<>>
  /\ highlightId' = NULL
  /\ historyBySymbol' = EmptyObj
  /\ hlTimers' = {}
  /\ hlLast' = NoTimer
  /\ dirty' = {}
  /\ queued' = {}
  /\ committed' = FirstRender
  /\ ordersIssued' = ordersIssued + 1
  /\ ordersInFlight' = {ordersIssued + 1}
  /\ tradesIssued' = tradesIssued + 1
  /\ tradesInFlight' = {tradesIssued + 1}
  /\ tickersFetch' = "pending"
  /\ backfillSyms' = {}
  /\ panel' = EmptyObj
  /\ placing' = [own |-> FALSE, former |-> placing.former + (IF placing.own THEN 1 ELSE 0)]
  /\ UNCHANGED <<timers, teardownLog, errored, clock, time, lastFrame, clicks, lastFetch>>

\* ------------------------------------------------------ ws.onmessage
\* A frame on a socket whose component was torn down changes nothing (React drops the
\* updates), so frames are taken while the component is mounted.
Receiving(i) == sock[i] = "open" /\ LiveFor(i)

\* case 'price_update'
PriceUpdate(i, s, p, o) ==
  /\ Receiving(i)
  /\ prices' = ApplyPrice(prices, s, p, o)
  /\ priceKeys' = IF s \in DOMAIN prices THEN priceKeys ELSE Append(priceKeys, s)
  /\ lastFrame' = [type |-> "price_update", ticker |-> s, price |-> p, open |-> o]
  /\ clock' = clock + 1
  /\ queued' = queued \cup {"prices", "fallback"}
  /\ UNCHANGED <<phase, panel, stale, placing, committed, connVars, orderUpdates, newTrades, time, orders, trades, tickers,
                 highlightId, historyBySymbol, hlTimers, hlLast, fetchVars, dirty>>

\* case 'order_update'
OrderUpdate(i, id) ==
  /\ Receiving(i)
  /\ \E now \in DateNow :
       orderUpdates' = Take(<<[type |-> "order_update", order_id |-> id, _ts |-> now]>> \o orderUpdates,
                            OrderUpdatesCap)
  /\ lastFrame' = [type |-> "order_update", order_id |-> id]
  /\ clock' = clock + 1
  /\ queued' = queued \cup {"orderUpdates"}
  /\ UNCHANGED <<phase, panel, stale, placing, committed, connVars, prices, priceKeys, newTrades, time, orders, trades, tickers,
                 highlightId, historyBySymbol, hlTimers, hlLast, fetchVars, dirty>>

\* case 'new_trade'
NewTradeUncapped(i, id) ==
  /\ Receiving(i)
  /\ \E now \in DateNow :
       newTrades' = <<TradeMsg(id) @@ [_ts |-> now]>> \o newTrades
  /\ lastFrame' = TradeMsg(id)
  /\ clock' = clock + 1
  /\ queued' = queued \cup {"newTrades"}
  /\ UNCHANGED <<phase, panel, stale, placing, committed, connVars, prices, priceKeys, orderUpdates, time, orders, trades, tickers,
                 highlightId, historyBySymbol, hlTimers, hlLast, fetchVars, dirty>>

NewTrade(i, id) ==
  /\ Receiving(i)
  /\ \E now \in DateNow :
       newTrades' = Take(<<TradeMsg(id) @@ [_ts |-> now]>> \o newTrades,
                         RawTradesCap)
  /\ lastFrame' = TradeMsg(id)
  /\ clock' = clock + 1
  /\ queued' = queued \cup {"newTrades"}
  /\ UNCHANGED <<phase, panel, stale, placing, committed, connVars, prices, priceKeys, orderUpdates, time, orders, trades, tickers,
                 highlightId, historyBySymbol, hlTimers, hlLast, fetchVars, dirty>>

\* default / catch: a frame that does not parse, or whose type is missing or unknown
BadFrameClearsPrices(i, f) ==
  /\ Receiving(i)
  /\ f.type \notin {"price_update", "order_update", "new_trade"}
  /\ lastFrame' = f
  /\ clock' = clock + 1
  /\ prices' = EmptyObj
  /\ UNCHANGED <<phase, panel, stale, placing, queued, committed, connVars, priceKeys, orderUpdates, newTrades, time, appVars, fetchVars>>

BadFrame(i, f) ==
  /\ Receiving(i)
  /\ f.type \notin {"price_update", "order_update", "new_trade"}
  /\ lastFrame' = f
  /\ clock' = clock + 1
  /\ UNCHANGED <<phase, panel, stale, placing, queued, committed, connVars, prices, priceKeys, orderUpdates, newTrades, time, appVars, fetchVars>>

\* ------------------------------------------------------- App effects
\* An effect reads the props and state of the render that made it due (its closure),
\* not the state as it is when the effect runs; its functional updaters (prev => ...)
\* are applied to the state as it is.
\* useEffect(..., [newTrades]): merge the raw buffer into the displayed list
TradeMergeEffect ==
  /\ Live
  /\ "newTrades" \in dirty
  /\ dirty' = dirty \ {"newTrades"}
  /\ trades' = IF committed.newTrades = <<>> THEN trades ELSE MergeTrades(trades, committed.newTrades)
  /\ UNCHANGED <<phase, panel, stale, placing, queued, committed, connVars, feedVars, orders, tickers, highlightId, historyBySymbol,
                 hlTimers, hlLast, fetchVars>>

\* useEffect(..., [prices]): record a sample per symbol of the price store
HistoryEffect ==
  /\ Live
  /\ "prices" \in dirty
  /\ dirty' = dirty \ {"prices"}
  /\ historyBySymbol' = IF DOMAIN committed.prices = {} THEN historyBySymbol
                        ELSE RecordAll(historyBySymbol, committed.prices, Pending)
  /\ queued' = IF DOMAIN committed.prices = {} THEN queued ELSE queued \cup {"render"}
  /\ UNCHANGED <<phase, panel, stale, placing, committed, connVars, feedVars, orders, trades, tickers, highlightId,
                 hlTimers, hlLast, fetchVars>>

\* useEffect(..., [orderUpdates]): cleanup of the previous run (clearTimeout), then
\* setHighlightId(u.order_id); refreshOrders(); setTimeout(clear, 1500)
HighlightEffect ==
  /\ Live
  /\ "orderUpdates" \in dirty
  /\ committed.orderUpdates # <<>>
  /\ dirty' = dirty \ {"orderUpdates"}
  /\ highlightId' = Latest(committed.orderUpdates).order_id
  /\ IssueOrders
  /\ LET t == [id |-> hlLast.id + 1, due |-> time + HighlightDelay]
     IN /\ hlTimers' = ClearTimeout(hlTimers, hlLast) \cup {t}
        /\ hlLast' = t
  /\ UNCHANGED <<phase, panel, stale, placing, queued, committed, connVars, feedVars, orders, trades, tickers, historyBySymbol,
                 tradesInFlight, tradesIssued, tickersFetch, backfillSyms, clicks, lastFetch>>

\* The highlight-clear timer fires, 1500 ms after it was set: setHighlightId(null)
HighlightTimer(t) ==
  /\ t \in hlTimers
  /\ time >= t.due
  /\ hlTimers' = hlTimers \ {t}
  /\ highlightId' = IF Live THEN NULL ELSE highlightId
  /\ UNCHANGED <<phase, panel, stale, placing, queued, committed, connVars, feedVars, orders, trades, tickers, historyBySymbol,
                 hlLast, dirty, fetchVars>>

\* useEffect(..., [tickers, prices, orders]): derive the tickers while there are none
FallbackEffect ==
  /\ Live
  /\ "fallback" \in dirty
  /\ LET derived == Derive(committed.priceKeys, committed.orders)
         sets == Len(committed.tickers) = 0 /\ Len(derived) > 0
     IN /\ tickers' = IF sets THEN derived ELSE tickers
        /\ dirty' = dirty \ {"fallback"}
        /\ queued' = IF sets THEN queued \cup {"fallback"} ELSE queued
  /\ UNCHANGED <<phase, panel, stale, placing, committed, connVars, feedVars, orders, trades, highlightId, historyBySymbol,
                 hlTimers, hlLast, fetchVars>>

\* React renders and commits: the pending updaters run, the component function runs on
\* the state as it is now,
\* TickerPanel shows one day-change row per symbol, and the effects whose dependencies
\* were set since the previous commit are due, with this render as their closure.
\* React runs the effects still pending from the previous commit before it renders.
Commit ==
  /\ Live
  /\ dirty = {}
  /\ queued # {}
  /\ orderUpdates' = Stamped(orderUpdates, time)
  /\ newTrades' = Stamped(newTrades, time)
  /\ historyBySymbol' = StampedHistory(historyBySymbol, time)
  /\ committed' = Rendered(tickers, prices, priceKeys, orders, orderUpdates', newTrades', historyBySymbol')
  /\ dirty' = queued \cap Effects
  /\ queued' = {}
  /\ panel' = [s \in PanelSymbols(tickers, priceKeys) |->
                 DayChange(LiveOf(prices, s), GetOr(historyBySymbol', s))]
  /\ UNCHANGED <<phase, stale, placing, connVars, prices, priceKeys, clock, time, lastFrame, orders, trades,
                 tickers, highlightId, hlTimers, hlLast, fetchVars>>

\* Time passes. setTimeout promises a minimum delay only: time may pass the due time
\* of a pending timer, whose callback then runs late.
Tick(d) ==
  /\ time' = time + d
  /\ UNCHANGED <<phase, panel, stale, placing, queued, committed, connVars, prices, priceKeys, orderUpdates, newTrades, clock, lastFrame,
                 appVars, fetchVars>>

\* ------------------------------------------------- snapshot fetches
\* refreshOrders() from the Refresh button of the orders table
RefreshOrdersClick ==
  /\ Live
  /\ clicks < MaxRefresh
  /\ clicks' = clicks + 1
  /\ IssueOrders
  /\ UNCHANGED <<phase, panel, stale, placing, queued, committed, connVars, feedVars, appVars, tradesInFlight, tradesIssued,
                 tickersFetch, backfillSyms, lastFetch>>

\* OrderEntryForm.handleSubmit up to its await: setBusy(true); createOrder(payload).
\* The Place button is enabled when a ticker is selected and the form is not busy.
SubmitOrder ==
  /\ Live
  /\ clicks < MaxRefresh
  /\ Len(committed.tickers) > 0
  /\ ~placing.own
  /\ placing' = [placing EXCEPT !.own = TRUE]
  /\ clicks' = clicks + 1
  /\ UNCHANGED <<phase, panel, stale, queued, committed, connVars, feedVars, appVars, ordersInFlight, ordersIssued,
                 tradesInFlight, tradesIssued, tickersFetch, backfillSyms, lastFetch>>

\* createOrder resolved for the form of the current instance: handleSubmit resumes and
\* calls onPlaced(res), which is refreshOrders; nothing on this path asks whether the
\* component is still mounted.
OrderPlaced ==
  /\ placing.own
  /\ placing' = [placing EXCEPT !.own = FALSE]
  /\ IssueOrders
  /\ UNCHANGED <<phase, panel, stale, queued, committed, connVars, feedVars, appVars, tradesInFlight, tradesIssued,
                 tickersFetch, backfillSyms, clicks, lastFetch>>

\* createOrder resolved for the form of a former instance: its refreshOrders sends one
\* more GET /orders/open, whose answer goes to the former instance and is dropped.
OrderPlacedFormer ==
  /\ placing.former > 0
  /\ placing' = [placing EXCEPT !.former = @ - 1]
  /\ ordersIssued' = ordersIssued + 1
  /\ UNCHANGED <<phase, panel, stale, queued, committed, connVars, feedVars, appVars, ordersInFlight,
                 tradesInFlight, tradesIssued, tickersFetch, backfillSyms, clicks, lastFetch>>

\* createOrder rejected for the form of the current instance: catch sets the form's
\* message, onPlaced is not called
OrderPlaceFail ==
  /\ placing.own
  /\ placing' = [placing EXCEPT !.own = FALSE]
  /\ UNCHANGED <<phase, panel, stale, queued, committed, connVars, feedVars, appVars, fetchVars>>

\* createOrder rejected for the form of a former instance, whatever the current form does
OrderPlaceFailFormer ==
  /\ placing.former > 0
  /\ placing' = [placing EXCEPT !.former = @ - 1]
  /\ UNCHANGED <<phase, panel, stale, queued, committed, connVars, feedVars, appVars, fetchVars>>

\* refreshTrades() from the Refresh button
RefreshTradesClick ==
  /\ Live
  /\ clicks < MaxRefresh
  /\ clicks' = clicks + 1
  /\ IssueTrades
  /\ UNCHANGED <<phase, panel, stale, placing, queued, committed, connVars, feedVars, appVars, ordersInFlight, ordersIssued,
                 tickersFetch, backfillSyms, lastFetch>>

\* refreshOrders: fetchOpenOrders resolved, setOrders(data)
OrdersFetchOkAppends(r, data) ==
  /\ r \in ordersInFlight
  /\ ordersInFlight' = ordersInFlight \ {r}
  /\ orders' = IF Live THEN orders \o data ELSE orders
  /\ queued' = IF Live THEN queued \cup {"fallback"} ELSE queued
  /\ lastFetch' = [kind |-> "orders", ok |-> TRUE, data |-> data]
  /\ UNCHANGED <<phase, panel, stale, placing, committed, connVars, feedVars, trades, tickers, highlightId, historyBySymbol,
                 hlTimers, hlLast, ordersIssued, tradesInFlight, tradesIssued,
                 tickersFetch, backfillSyms, clicks, dirty>>

OrdersFetchOk(r, data) ==
  /\ r \in ordersInFlight
  /\ ordersInFlight' = ordersInFlight \ {r}
  /\ orders' = IF Live THEN data ELSE orders
  /\ queued' = IF Live THEN queued \cup {"fallback"} ELSE queued
  /\ lastFetch' = [kind |-> "orders", ok |-> TRUE, data |-> data]
  /\ UNCHANGED <<phase, panel, stale, placing, committed, connVars, feedVars, trades, tickers, highlightId, historyBySymbol,
                 hlTimers, hlLast, ordersIssued, tradesInFlight, tradesIssued,
                 tickersFetch, backfillSyms, clicks, dirty>>

\* refreshOrders: fetchOpenOrders rejected, catch: noop
OrdersFetchFailClears(r) ==
  /\ r \in ordersInFlight
  /\ ordersInFlight' = ordersInFlight \ {r}
  /\ lastFetch' = [kind |-> "orders", ok |-> FALSE, data |-> <<>>]
  /\ orders' = <<>>
  /\ UNCHANGED <<phase, panel, stale, placing, queued, committed, connVars, feedVars, trades, tickers, highlightId, historyBySymbol,
                 hlTimers, hlLast, dirty, ordersIssued, tradesInFlight, tradesIssued,
                 tickersFetch, backfillSyms, clicks>>

OrdersFetchFail(r) ==
  /\ r \in ordersInFlight
  /\ ordersInFlight' = ordersInFlight \ {r}
  /\ lastFetch' = [kind |-> "orders", ok |-> FALSE, data |-> <<>>]
  /\ UNCHANGED <<phase, panel, stale, placing, queued, committed, connVars, feedVars, appVars, ordersIssued, tradesInFlight, tradesIssued,
                 tickersFetch, backfillSyms, clicks>>

\* refreshTrades: fetchRecentTrades resolved, setTrades(data)
TradesFetchOk(r, data) ==
  /\ r \in tradesInFlight
  /\ tradesInFlight' = tradesInFlight \ {r}
  /\ trades' = IF Live THEN data ELSE trades
  /\ lastFetch' = [kind |-> "trades", ok |-> TRUE, data |-> data]
  /\ UNCHANGED <<phase, panel, stale, placing, queued, committed, connVars, feedVars, orders, tickers, highlightId, historyBySymbol,
                 hlTimers, hlLast, dirty, ordersInFlight, ordersIssued, tradesIssued,
                 tickersFetch, backfillSyms, clicks>>

\* refreshTrades: fetchRecentTrades rejected, catch: noop
TradesFetchFail(r) ==
  /\ r \in tradesInFlight
  /\ tradesInFlight' = tradesInFlight \ {r}
  /\ lastFetch' = [kind |-> "trades", ok |-> FALSE, data |-> <<>>]
  /\ UNCHANGED <<phase, panel, stale, placing, queued, committed, connVars, feedVars, appVars, ordersInFlight, ordersIssued, tradesIssued,
                 tickersFetch, backfillSyms, clicks>>

\* The seed the prefetch builds: hist[sym] = ticks for every entry.
Seed(answers) == [s \in DOMAIN answers |-> answers[s]]

\* fetchTickers resolved: setTickers(tks), then the history prefetch of every ticker
\* starts. With no ticker there is nothing to wait for: Promise.all([]) is resolved
\* and setHistoryBySymbol({}) follows in the same turn of the event loop.
TickersFetchOk(tks) ==
  /\ tickersFetch = "pending"
  /\ tickersFetch' = IF tks = <<>> THEN "done" ELSE "backfill"
  /\ backfillSyms' = {tks[k].symbol : k \in DOMAIN tks}
  /\ tickers' = IF Live THEN tks ELSE tickers
  /\ historyBySymbol' = IF Live /\ tks = <<>> THEN Seed(EmptyObj) ELSE historyBySymbol
  /\ queued' = IF ~Live THEN queued
               ELSE queued \cup {"fallback"} \cup (IF tks = <<>> THEN {"render"} ELSE {})
  /\ lastFetch' = IF tks = <<>> THEN [kind |-> "history", ok |-> TRUE, data |-> <<>>]
                  ELSE [kind |-> "tickers", ok |-> TRUE, data |-> tks]
  /\ UNCHANGED <<phase, panel, stale, placing, committed, connVars, feedVars, orders, trades, highlightId,
                 hlTimers, hlLast, ordersInFlight, ordersIssued, tradesInFlight,
                 tradesIssued, clicks, dirty>>

\* fetchTickers rejected: .catch swallows
TickersFetchFail ==
  /\ tickersFetch = "pending"
  /\ tickersFetch' = "failed"
  /\ lastFetch' = [kind |-> "tickers", ok |-> FALSE, data |-> <<>>]
  /\ UNCHANGED <<phase, panel, stale, placing, queued, committed, connVars, feedVars, appVars, ordersInFlight, ordersIssued,
                 tradesInFlight, tradesIssued, backfillSyms, clicks>>

\* Promise.all of the fetchPriceHistory calls resolved: setHistoryBySymbol(hist)
BackfillOk(answers) ==
  /\ tickersFetch = "backfill"
  /\ DOMAIN answers = backfillSyms
  /\ tickersFetch' = "done"
  /\ historyBySymbol' = IF Live THEN Seed(answers) ELSE historyBySymbol
  /\ queued' = IF Live THEN queued \cup {"render"} ELSE queued
  /\ lastFetch' = [kind |-> "history", ok |-> TRUE, data |-> <<>>]
  /\ UNCHANGED <<phase, panel, stale, placing, committed, connVars, feedVars, orders, trades, tickers, highlightId,
                 hlTimers, hlLast, dirty, ordersInFlight, ordersIssued, tradesInFlight,
                 tradesIssued, backfillSyms, clicks>>

\* One fetchPriceHistory rejected: catch ignores the prefetch error
BackfillFail ==
  /\ tickersFetch = "backfill"
  /\ backfillSyms # {}
  /\ tickersFetch' = "failed"
  /\ lastFetch' = [kind |-> "history", ok |-> FALSE, data |-> <<>>]
  /\ UNCHANGED <<phase, panel, stale, placing, queued, committed, connVars, feedVars, appVars, ordersInFlight, ordersIssued,
                 tradesInFlight, tradesIssued, backfillSyms, clicks>>

\* ------------------------------------------------------ specifications
Transport(maxSockets) ==
  \/ Mount
  \/ \E i \in SockIds : TransportOpen(i)
  \/ \E i \in SockIds : TransportError(i)
  \/ \E i \in SockIds : TransportClose(i)
  \/ nsock < maxSockets /\ \E t \in SockIds : ReconnectTimer(t)
  \/ Teardown

\* The transport with no fault: the component mounts and its socket opens.
Connected ==
  \/ Mount
  \/ \E i \in SockIds : TransportOpen(i)

\* The connection manager alone.
NextConn == Transport(MaxSockets)

SpecConn == Init /\ [][NextConn]_vars

\* The connection manager with its reconnect timer firing whenever it is pending. The
\* last transport the bound allows never fails, so the bound cuts no reconnect short.
NextConnFair ==
  \/ Mount
  \/ \E i \in SockIds : TransportOpen(i)
  \/ nsock < MaxSockets /\ \E i \in SockIds : TransportError(i)
  \/ nsock < MaxSockets /\ \E i \in SockIds : TransportClose(i)
  \/ nsock < MaxSockets /\ \E t \in SockIds : ReconnectTimer(t)
  \/ Teardown

SpecConnFair ==
  /\ Init
  /\ [][NextConnFair]_vars
  /\ WF_vars(nsock < MaxSockets /\ \E t \in SockIds : ReconnectTimer(t))

\* The price store, the history ring and its backfill.
NextPrices ==
  \/ Connected
  \/ clock < MaxPriceFrames /\ \E i \in SockIds, s \in Symbols, p \in PriceValues, o \in OpenValues :
       PriceUpdate(i, s, p, o)
  \/ HistoryEffect
  \/ FallbackEffect
  \/ Commit
  \/ time < MaxTimeAll /\ Tick(HighlightDelay)
  \/ \E tks \in TickerSnapshots : TickersFetchOk(tks)
  \/ TickersFetchFail
  \/ \E answers \in [backfillSyms -> BackfillAnswers] : BackfillOk(answers)
  \/ BackfillFail

SpecPrices == Init /\ [][NextPrices]_vars

\* The trade merger: snapshot loads and stream trades with repeated ids.
NextTrades ==
  \/ Connected
  \/ clock < MaxTradeFrames /\ \E i \in SockIds, id \in StreamTradeIds : NewTrade(i, id)
  \/ TradeMergeEffect
  \/ Commit
  \/ RefreshTradesClick
  \/ \E r \in tradesInFlight, data \in TradeSnapshots : TradesFetchOk(r, data)
  \/ \E r \in tradesInFlight : TradesFetchFail(r)

SpecTrades == Init /\ [][NextTrades]_vars

\* A burst of stream trades, each with a fresh id, long enough to overflow the displayed list.
NextBurst ==
  \/ Connected
  \/ clock < MaxBurst /\ \E i \in SockIds : NewTrade(i, clock + 1)
  \/ TradeMergeEffect
  \/ Commit

SpecBurst == Init /\ [][NextBurst]_vars

\* The decoder: frames of every kind on an open socket.
NextDecoder ==
  \/ Connected
  \/ clock < MaxDecodeFrames /\ \E i \in SockIds :
       \/ \E s \in Symbols, p \in PriceValues, o \in OpenValues : PriceUpdate(i, s, p, o)
       \/ \E id \in OrderIds : OrderUpdate(i, id)
       \/ \E id \in StreamTradeIds : NewTrade(i, id)
       \/ \E f \in BadFrames : BadFrame(i, f)

SpecDecoder == Init /\ [][NextDecoder]_vars

\* The ticker universe resolver: the ticker snapshot, price frames and order reloads.
NextTickers ==
  \/ Connected
  \/ clock < MaxTickerFrames /\ \E i \in SockIds, s \in Symbols : PriceUpdate(i, s, 100, NULL)
  \/ FallbackEffect
  \/ HistoryEffect
  \/ Commit
  \/ \E tks \in TickerSnapshots : TickersFetchOk(tks)
  \/ TickersFetchFail
  \/ RefreshOrdersClick
  \/ \E r \in ordersInFlight, data \in OrderSnapshots : OrdersFetchOk(r, data)
  \/ \E r \in ordersInFlight : OrdersFetchFail(r)

SpecTickers == Init /\ [][NextTickers]_vars

\* The snapshot fetches: the initial loads, the manual refreshes, the re-fetch after an
\* order was placed, their answers and failures, until and after the teardown.
NextFetch ==
  \/ Connected
  \/ Teardown
  \/ RefreshOrdersClick
  \/ RefreshTradesClick
  \/ SubmitOrder
  \/ OrderPlaced
  \/ OrderPlacedFormer
  \/ OrderPlaceFail
  \/ OrderPlaceFailFormer
  \/ nsock < MaxSocketsAll /\ Restart
  \/ \E r \in ordersInFlight, data \in OrderSnapshots : OrdersFetchOk(r, data)
  \/ \E r \in ordersInFlight : OrdersFetchFail(r)
  \/ \E r \in tradesInFlight, data \in TradeSnapshots : TradesFetchOk(r, data)
  \/ \E r \in tradesInFlight : TradesFetchFail(r)
  \/ \E tks \in TickerSnapshots : TickersFetchOk(tks)
  \/ TickersFetchFail
  \/ \E answers \in [backfillSyms -> BackfillAnswers] : BackfillOk(answers)
  \/ BackfillFail
  \/ FallbackEffect
  \/ Commit

SpecFetch == Init /\ [][NextFetch]_vars

\* The raw buffers: a burst of order updates, then a burst of trades, each longer
\* than its buffer.
NextBuffers ==
  \/ Connected
  \/ clock < MaxOrderBurst /\ \E i \in SockIds : OrderUpdate(i, 1 + (clock % 2))
  \/ clock >= MaxOrderBurst /\ clock < MaxOrderBurst + MaxTradeBurst
       /\ \E i \in SockIds : NewTrade(i, clock + 1)
  \/ time < MaxTimeAll /\ Tick(HighlightDelay)

SpecBuffers == Init /\ [][NextBuffers]_vars

\* The order reconciler: order updates, the highlight and its timer, the order re-fetches.
NextHighlight ==
  \/ Connected
  \/ clock < MaxOrderFrames /\ \E i \in SockIds, id \in OrderIds : OrderUpdate(i, id)
  \/ HighlightEffect
  \/ FallbackEffect
  \/ Commit
  \/ \E t \in hlTimers : HighlightTimer(t)
  \/ time < MaxTime /\ Tick(TickMs)
  \/ \E r \in ordersInFlight, data \in OrderSnapshots : OrdersFetchOk(r, data)
  \/ \E r \in ordersInFlight : OrdersFetchFail(r)
  \/ Teardown

SpecHighlight == Init /\ [][NextHighlight]_vars

\* The ticker panel: price frames with and without price and open, the history and
\* its backfill, and the render.
NextPanel ==
  \/ Connected
  \/ clock < MaxPanelFrames /\ \E i \in SockIds, p \in PanelPrices, o \in OpenValues :
       PriceUpdate(i, "A", p, o)
  \/ HistoryEffect
  \/ FallbackEffect
  \/ TickersFetchOk(<<SymRow("A")>>)
  \/ \E answers \in [backfillSyms -> {<<>>, Ticks(2)}] : BackfillOk(answers)
  \/ Commit

SpecPanel == Init /\ [][NextPanel]_vars

\* The connection manager across restarts of the component.
NextRestart ==
  \/ Transport(MaxSocketsRestart)
  \/ nsock < MaxSocketsRestart /\ Restart

SpecRestart == Init /\ [][NextRestart]_vars

\* Concurrent re-fetches of the orders, after the initial load was answered: the r-th
\* fetch is answered with AnswerTo(r), in any order.
NextRefetch ==
  \/ Connected
  \/ clock < MaxRefetchFrames /\ 1 \notin ordersInFlight
       /\ \E i \in SockIds, id \in OrderIds : OrderUpdate(i, id)
  \/ HighlightEffect
  \/ FallbackEffect
  \/ Commit
  \/ 1 \notin ordersInFlight /\ RefreshOrdersClick
  \/ \E r \in ordersInFlight : OrdersFetchOk(r, AnswerTo(r))

SpecRefetch == Init /\ [][NextRefetch]_vars

\* The whole system, one representative of every input of the feed and of every answer
\* to the initial loads and to the re-fetches the highlight effect issues.
Next ==
  \/ Transport(MaxSocketsAll)
  \/ clock < MaxFrames /\ \E i \in SockIds :
       \/ PriceUpdate(i, "A", 105, 100)
       \/ OrderUpdate(i, 1)
       \/ NewTrade(i, 7)
       \/ BadFrame(i, [type |-> "heartbeat"])
  \/ FallbackEffect
  \/ TradeMergeEffect
  \/ HistoryEffect
  \/ HighlightEffect
  \/ Commit
  \/ \E t \in hlTimers : HighlightTimer(t)
  \/ time < MaxTimeAll /\ Tick(HighlightDelay)
  \/ \E r \in ordersInFlight : OrdersFetchOk(r, <<OrderRow(1, "B")>>)
  \/ \E r \in ordersInFlight : OrdersFetchFail(r)
  \/ \E r \in tradesInFlight : TradesFetchOk(r, <<TradeRow(5), TradeRow(6)>>)
  \/ \E r \in tradesInFlight : TradesFetchFail(r)
  \/ TickersFetchOk(<<SymRow("A")>>)
  \/ TickersFetchFail
  \/ \E answers \in [backfillSyms -> {Ticks(HistoryLimit)}] : BackfillOk(answers)
  \/ BackfillFail

Spec == Init /\ [][Next]_vars

\* ================================================================ claims

\* A frame was received in this step.
FrameStep == clock' = clock + 1

\* The current price a symbol holds in a price store, NULL if it has no state.
CurrentOf(pr, s) == IF s \in DOMAIN pr THEN pr[s].price ELSE NULL

\* C1: after every price_update for a symbol, the stored previous price is the
\* current price the symbol held just before that event (NULL if it had no state),
\* and the stored current price is the event's own price.
C1_PreviousIsPriorCurrent ==
  [][(FrameStep /\ lastFrame'.type = "price_update") =>
       LET s == lastFrame'.ticker
       IN /\ s \in DOMAIN prices'
          /\ prices'[s].prev = CurrentOf(prices, s)
          /\ prices'[s].price = lastFrame'.price]_vars

\* C1 witness: a second event on a symbol, with a price other than the first.
C1_Witness ==
  /\ "A" \in DOMAIN prices
  /\ prices["A"].price = 105
  /\ prices["A"].prev = 100

\* C2: the displayed trade list never holds more than 100 entries and never
\* holds the same trade id twice.
C2_BoundedNoDuplicateIds ==
  /\ Len(trades) <= TradesCap
  /\ \A i, j \in DOMAIN trades : i # j => trades[i].trade_id # trades[j].trade_id

\* C2 witness: a full list that took a stream trade after the same id had been
\* delivered twice.
C2_Witness ==
  /\ Len(trades) = TradesCap
  /\ trades[1].product = "MIS"
  /\ \E i, j \in DOMAIN newTrades : i # j /\ newTrades[i].trade_id = newTrades[j].trade_id

\* The place in the raw buffer of the stream event with trade id `id` (of the first
\* to arrive, if several). The buffer is newest first: of two events, the one that
\* arrived later has the smaller place.
ArrivalOf(id) ==
  LET S == {k \in DOMAIN newTrades : newTrades[k].trade_id = id}
  IN CHOOSE k \in S : \A u \in S : k >= u

\* The displayed entries that came from the stream and are still in the raw buffer.
StreamShown ==
  LET raw == Range(Ids(newTrades))
  IN SelectSeq(trades, LAMBDA t : t.product = "MIS" /\ t.trade_id \in raw)

\* C3: of any two stream-sourced trades in the displayed list, the one that arrived
\* later is nearer the front: down the list, each trade arrived before the one
\* above it.
C3_NewestFirst ==
  LET f == StreamShown
  IN \A k \in 1..(Len(f) - 1) : ArrivalOf(f[k].trade_id) < ArrivalOf(f[k + 1].trade_id)

\* The indices of batch b a merge keeps: id not in prev, first occurrence in b.
KeptIndices(prev, b) ==
  {i \in DOMAIN b : /\ \A k \in DOMAIN prev : prev[k].trade_id # b[i].trade_id
                    /\ \A j \in 1..(i - 1) : b[j].trade_id # b[i].trade_id}

\* The n-th smallest element of a set of numbers.
NthOf(S, n) == CHOOSE x \in S : Cardinality({y \in S : y < x}) = n - 1

\* The ids the claim expects of one merge step.
ExpectedMergeIds(prev, b) ==
  LET keep == KeptIndices(prev, b)
      fresh == [n \in 1..Cardinality(keep) |-> b[NthOf(keep, n)].trade_id]
  IN Take(fresh \o Ids(prev), TradesCap)

\* The effect e has run for the latest change of the state it depends on.
Processed(e) == e \notin dirty /\ e \notin queued

\* The merge effect ran in this step, on the batch its render saw.
MergeStep == "newTrades" \in dirty /\ "newTrades" \notin dirty' /\ committed.newTrades # <<>>

\* C4: one merge step yields the batch's elements whose id is not displayed, first
\* occurrence only and in the batch's order, followed by the displayed list in its
\* order, cut to 100 entries; displayed ids [5,6] and batch ids [6,7,7] give [7,5,6].
C4_MergeStep ==
  [][MergeStep =>
       /\ Ids(trades') = ExpectedMergeIds(trades, committed.newTrades)
       /\ LET n == Len(trades') - Cardinality(KeptIndices(trades, committed.newTrades))
          IN SubSeq(trades', Len(trades') - n + 1, Len(trades')) = SubSeq(trades, 1, n)
       /\ Ids(MergeTrades(<<TradeRow(5), TradeRow(6)>>, <<TradeMsg(6), TradeMsg(7), TradeMsg(7)>>))
            = <<7, 5, 6>>]_vars

\* C4 witness: the worked example, merged.
C4_Witness ==
  /\ Ids(newTrades) = <<6, 7, 7>>
  /\ Ids(trades) = <<7, 5, 6>>
  /\ Processed("newTrades")

\* C5: while mounted, a transport that closed after an error leaves exactly one
\* reconnect timer pending (its own) and every close is answered by at most one new
\* transport; after a teardown that found that timer pending, no timer is pending and
\* no transport is ever constructed again.
C5_OneReconnectAndNoneAfterTeardown ==
  /\ \A i \in SockIds :
       (Live /\ i \in errored /\ sock[i] = "closed" /\ wsRef = i)
         => (timers = {i} /\ reconnectRef = i)
  /\ Live => /\ Cardinality(timers) <= 1
             /\ nsock = Cardinality({i \in SockIds : sock[i] = "closed"})
                          + (IF timers = {} THEN 1 ELSE 0)
  /\ (teardownLog.ran /\ teardownLog.timerPending)
       => (timers = {} /\ nsock = teardownLog.nsock
           /\ \A i \in SockIds : sock[i] \in {"none", "closed"})

\* C5 witness: the transport errored and closed, the teardown came while its
\* reconnect timer was pending.
C5_Witness ==
  /\ teardownLog.ran
  /\ teardownLog.timerPending
  /\ teardownLog.nsock \in errored
  /\ teardownLog.status = "disconnected"

\* C6: after a teardown in any connection state, no reconnect timer is pending and
\* no transport is constructed.
C6_TeardownStopsReconnect ==
  teardownLog.ran => (timers = {} /\ nsock = teardownLog.nsock)

\* A snapshot fetch or the history backfill completed in this step.
FetchCompletionStep ==
  /\ phase' = phase
  /\ \/ ordersInFlight' # ordersInFlight /\ ordersIssued' = ordersIssued
     \/ tradesInFlight' # tradesInFlight /\ tradesIssued' = tradesIssued
     \/ tickersFetch' # tickersFetch /\ tickersFetch # "idle"

\* C7: the status moves only from disconnected to connecting (with a connect call: at
\* mount or when a reconnect timer fires), from connecting to connected (a transport
\* opened) and from connecting or connected to disconnected (a transport closed);
\* frames, fetch completions and the highlight timer leave it alone.
C7_StatusEdges ==
  [][/\ (status # status' /\ status = "disconnected")
          => /\ status' = "connecting"
             /\ nsock' = nsock + 1
             /\ phase = "init" \/ timers' # timers
     /\ (status # status' /\ status = "connecting")
          => \/ /\ status' = "connected"
                /\ \E i \in SockIds : sock[i] = "connecting" /\ sock'[i] = "open"
             \/ /\ status' = "disconnected"
                /\ \E i \in SockIds : sock[i] # "closed" /\ sock'[i] = "closed"
     /\ (status # status' /\ status = "connected")
          => /\ status' = "disconnected"
             /\ \E i \in SockIds : sock[i] # "closed" /\ sock'[i] = "closed"
     /\ (FrameStep \/ FetchCompletionStep \/ hlTimers' # hlTimers) => status' = status]_vars

\* C7 witness: connected again after a reconnect, a frame received and a fetch answered.
C7_Witness ==
  /\ status = "connected"
  /\ nsock = 2
  /\ clock = 1
  /\ ordersInFlight = {}

\* C8: while mounted, a disconnect that follows a transport error or close leads to a
\* new connect attempt, given that the reconnect timer fires.
C8_FaultLeadsToReconnect ==
  (Live /\ status = "disconnected" /\ nsock > 0) ~> (status = "connecting" \/ ~Live)

\* C8 witness: a second transport is connecting after the first one failed.
C8_Witness ==
  /\ Live
  /\ status = "connecting"
  /\ nsock = 2
  /\ 1 \in errored

\* The history effect ran in this step.
HistoryStep == "prices" \in dirty /\ "prices" \notin dirty'

\* A history holds a live sample (seeded ticks were taken before time 0).
HasLive(h) == \E k \in DOMAIN h : h[k].timestamp >= 0

\* C9: a history that took live samples has at most 10 samples, and every history is
\* oldest-first; recording appends the new sample, stamped when its updater runs, and
\* on a history of 10 it removes exactly the oldest and keeps the other 9 in order.
C9_HistoryRing ==
  /\ [](\A s \in DOMAIN historyBySymbol :
          LET h == historyBySymbol[s]
          IN /\ HasLive(h) => Len(h) <= HistoryLimit
             /\ \A i, j \in DOMAIN h : i < j => h[i].timestamp <= h[j].timestamp)
  /\ [][HistoryStep =>
          \A s \in DOMAIN committed.prices :
            LET h == GetOr(historyBySymbol, s)
                h2 == historyBySymbol'[s]
                new == h2[Len(h2)]
            IN /\ Len(h2) <= HistoryLimit
               /\ new.price = committed.prices[s].price
               /\ new.timestamp >= time
               /\ Len(h) < HistoryLimit => h2 = Append(h, new)
               /\ Len(h) = HistoryLimit => h2 = Append(Tail(h), new)]_vars

\* C9 witness: a history of 10 seeded ticks took a live sample and lost its oldest tick.
C9_Witness ==
  \E s \in DOMAIN historyBySymbol :
    LET h == historyBySymbol[s]
    IN /\ Len(h) = HistoryLimit
       /\ h[1] = Ticks(HistoryLimit)[2]
       /\ h[HistoryLimit].timestamp >= 0

\* The backfill's seed was applied in this step.
SeedStep == tickersFetch \in {"pending", "backfill"} /\ tickersFetch' = "done"

\* C10: right after the seed is applied every history has at most 10 samples,
\* whatever the backfill answered.
C10_SeedRespectsCapacity ==
  [][SeedStep => \A s \in DOMAIN historyBySymbol' : Len(historyBySymbol'[s]) <= HistoryLimit]_vars

\* The highlight effect ran in this step.
HighlightRun == "orderUpdates" \in dirty /\ "orderUpdates" \notin dirty'

\* The highlight timer t fired in this step.
Fired(t) == t \in hlTimers /\ t \notin hlTimers' /\ dirty' = dirty /\ phase' = phase

\* C11: processing an order_update for X sets the highlight to X, cancels the pending
\* clear and starts a full 1500 ms window; the highlight is cleared by the timer of
\* the latest processed update only, never before that timer's 1500 ms have passed,
\* and while the highlight is set the clear of the latest processed update is pending.
C11_HighlightWindow ==
  /\ [][HighlightRun =>
          /\ highlightId' = committed.orderUpdates[1].order_id
          /\ \E t \in hlTimers' : /\ hlTimers' = {t}
                                 /\ t \notin hlTimers
                                 /\ t.due = time + HighlightDelay]_vars
  /\ [][\A t \in hlTimers : Fired(t) =>
          /\ t = hlLast
          /\ time >= t.due
          /\ highlightId' = NULL]_vars
  /\ [][(highlightId # NULL /\ highlightId' = NULL) => \E t \in hlTimers : Fired(t)]_vars
  /\ []((Live /\ highlightId # NULL) => hlTimers = {hlLast})

\* C11 witness: a second update for order 1 was processed 750 ms after the first; at
\* 1500 ms the highlight is still set and its clear is due at 2250 ms.
C11_Witness ==
  /\ Len(orderUpdates) = 2
  /\ orderUpdates[1].order_id = 1
  /\ orderUpdates[2].order_id = 1
  /\ highlightId = 1
  /\ time = HighlightDelay
  /\ \E t \in hlTimers : hlTimers = {t} /\ t.due = TickMs + HighlightDelay

\* C12: once the latest order_update has been processed, a set highlight is the order
\* id at the head of the order-update buffer, and the highlight is never set to
\* anything but the id at the head of the buffer the effect's render saw.
C12_HighlightIsLatest ==
  /\ []((highlightId # NULL /\ Processed("orderUpdates"))
          => highlightId = orderUpdates[1].order_id)
  /\ [][(highlightId' # highlightId /\ highlightId' # NULL)
          => highlightId' = committed.orderUpdates[1].order_id]_vars

\* C12 witness: an update for order 2 was processed after one for order 1.
C12_Witness ==
  /\ Len(orderUpdates) = 2
  /\ orderUpdates[1].order_id = 2
  /\ orderUpdates[2].order_id = 1
  /\ Processed("orderUpdates")
  /\ highlightId = 2

\* C13: a frame that does not parse, has no type or has an unknown type changes
\* neither the prices, the order-update buffer, the raw trade buffer nor the status,
\* and leaves the socket receiving, so the frames after it are processed.
C13_BadFrameDropped ==
  [][(FrameStep /\ lastFrame' \in BadFrames) =>
       /\ UNCHANGED <<prices, priceKeys, orderUpdates, newTrades, status>>
       /\ \A i \in SockIds : Receiving(i) => Receiving(i)']_vars

\* C13 witness: two frames were received, the second a price_update that was applied,
\* the first one dropped.
C13_Witness ==
  /\ clock = 2
  /\ lastFrame.type = "price_update"
  /\ priceKeys = <<lastFrame.ticker>>
  /\ prices[lastFrame.ticker].price = lastFrame.price
  /\ prices[lastFrame.ticker].prev = NULL
  /\ orderUpdates = <<>>
  /\ newTrades = <<>>

\* The open price a symbol holds in a price store, NULL if it has no state.
OpenOf(pr, s) == IF s \in DOMAIN pr THEN pr[s].open ELSE NULL

\* C14: a price_update that carries an open sets the symbol's open price to it, one
\* that omits it leaves the open price as it was (NULL included); the open price of
\* every other symbol is untouched.
C14_OpenSticky ==
  [][(FrameStep /\ lastFrame'.type = "price_update") =>
       LET s == lastFrame'.ticker
           o == lastFrame'.open
       IN /\ OpenOf(prices', s) = IF o # NULL THEN o ELSE OpenOf(prices, s)
          /\ \A x \in DOMAIN prices : x # s => prices'[x] = prices[x]]_vars

\* C14 witness: the open price 100 of a symbol survived an update that omitted it.
C14_Witness ==
  /\ clock = 3
  /\ priceKeys = <<"A">>
  /\ prices["A"].open = 100
  /\ prices["A"].price = 105
  /\ prices["A"].prev = 105
  /\ lastFrame.type = "price_update"
  /\ lastFrame.open = NULL

\* The symbols of a ticker list.
SymsOf(tks) == {tks[k].symbol : k \in DOMAIN tks}

\* The ticker snapshot was applied in this step.
SnapshotStep == tickersFetch = "pending" /\ tickersFetch' \in {"backfill", "done"}

\* A non-empty ticker snapshot has been applied.
SnapshotLoaded == tickersFetch \in {"backfill", "done"} /\ backfillSyms # {}

\* C15: a ticker snapshot is applied as it was fetched, and after a non-empty one was
\* applied the ticker list is that snapshot and no step changes it, whatever prices
\* and orders arrive. Violated: a fallback effect that was due before the snapshot
\* arrived runs after it, on a render that saw no tickers, and replaces the snapshot.
C15_SnapshotAuthoritative ==
  /\ [][(SnapshotStep /\ Live) => tickers' = lastFetch'.data]_vars
  /\ [][SnapshotLoaded => tickers' = tickers]_vars
  /\ [](SnapshotLoaded => (tickers \in TickerSnapshots /\ SymsOf(tickers) = backfillSyms))

\* The set the fallback derives from a price store and an order list.
ExpectedFallback(pr, ords) ==
  IF DOMAIN pr # {} THEN DOMAIN pr ELSE {ords[k].ticker : k \in DOMAIN ords}

\* The fallback effect set the ticker list in this step.
FallbackSetStep == tickers' # tickers /\ tickersFetch' = tickersFetch

\* The fallback effect ran in this step.
FallbackRun == "fallback" \in dirty /\ "fallback" \notin dirty'

\* C16: the fallback sets the ticker list only when the list its render saw is empty,
\* to the symbols of the price store if there are any, else to the distinct symbols of
\* the loaded orders, each symbol once; it leaves an empty list empty only when there
\* is no symbol to derive; price symbols {A,B} with order symbols {B,C} give {A,B}.
C16_FallbackDerivation ==
  [][/\ FallbackSetStep =>
          /\ committed.tickers = <<>>
          /\ SymsOf(tickers') = ExpectedFallback(committed.prices, committed.orders)
          /\ Cardinality(SymsOf(tickers')) = Len(tickers')
     /\ (FallbackRun /\ committed.tickers = <<>>)
          => \/ ExpectedFallback(committed.prices, committed.orders) = {} /\ tickers' = tickers
             \/ /\ ExpectedFallback(committed.prices, committed.orders) # {}
                /\ SymsOf(tickers') = ExpectedFallback(committed.prices, committed.orders)
     /\ SymsOf(Derive(<<"A", "B">>, <<OrderRow(1, "B"), OrderRow(2, "C")>>)) = {"A", "B"}]_vars

\* C16 witness: the ticker fetch failed, orders with the symbols B and C are loaded,
\* the price store holds A and B, and the fallback resolved to A and B.
C16_Witness ==
  /\ tickersFetch = "failed"
  /\ SymsOf(tickers) = {"A", "B"}
  /\ {orders[k].ticker : k \in DOMAIN orders} = {"B", "C"}
  /\ Processed("fallback")

\* No non-empty ticker snapshot is available.
SnapshotUnavailable ==
  \/ tickersFetch \in {"pending", "failed"}
  \/ tickersFetch \in {"backfill", "done"} /\ backfillSyms = {}

\* C17: while no ticker snapshot is available, once the fallback effect has run for
\* the latest change, the ticker list holds the current symbols of the price store
\* (or of the orders if the price store is empty).
C17_FallbackFollowsInputs ==
  (Live /\ SnapshotUnavailable /\ Processed("fallback"))
    => SymsOf(tickers) = ExpectedFallback(prices, orders)

\* A fetch completed with a failure in this step.
FetchFailStep == FetchCompletionStep /\ ~lastFetch'.ok

\* C18: a failing fetch of the orders, the trades, the tickers or the price history
\* leaves the orders, the trades, the tickers and the history as they were, changes
\* neither the connection nor the phase, and issues or schedules no further fetch.
C18_FetchFailureSwallowed ==
  [][FetchFailStep =>
       /\ UNCHANGED <<orders, trades, tickers, historyBySymbol, highlightId>>
       /\ UNCHANGED <<phase, panel, stale, placing, queued, committed, status, timers, hlTimers, dirty>>
       /\ UNCHANGED <<ordersIssued, tradesIssued>>
       /\ ordersInFlight' \subseteq ordersInFlight
       /\ tradesInFlight' \subseteq tradesInFlight
       /\ tickersFetch' # tickersFetch => tickersFetch' = "failed"]_vars

\* C18 witness: the tickers (or their history) failed to load, and a refresh of the
\* orders failed after orders had been loaded: they are still there, nothing is in flight.
C18_Witness ==
  /\ tickersFetch = "failed"
  /\ lastFetch.kind = "orders"
  /\ ~lastFetch.ok
  /\ orders # <<>>
  /\ ordersIssued = 2
  /\ ordersInFlight = {}

\* A fetch of the orders completed in this step.
OrdersCompletionStep == ordersInFlight' # ordersInFlight /\ ordersIssued' = ordersIssued

\* C19: an order_update frame leaves the orders alone, and so does the highlight
\* effect, which sets the highlight and issues one fetch of the orders; the orders
\* change only when such a fetch succeeds, and then they are the fetched snapshot.
C19_OrdersOnlyFromSnapshot ==
  [][/\ FrameStep => orders' = orders
     /\ HighlightRun =>
          /\ orders' = orders
          /\ highlightId' = committed.orderUpdates[1].order_id
          /\ ordersIssued' = ordersIssued + 1
          /\ ordersInFlight' = ordersInFlight \cup {ordersIssued'}
     /\ orders' # orders => (OrdersCompletionStep /\ lastFetch'.kind = "orders" /\ lastFetch'.ok)
     /\ (OrdersCompletionStep /\ lastFetch'.ok /\ Live) => orders' = lastFetch'.data]_vars

\* C19 witness: an update of order 2 was processed, both fetches of the orders were
\* answered, and the orders are the three-row snapshot.
C19_Witness ==
  /\ Len(orderUpdates) = 1
  /\ highlightId = 2
  /\ ordersIssued = 2
  /\ ordersInFlight = {}
  /\ Len(orders) = 3
  /\ lastFetch.ok

\* The order id the n-th frame of the order burst carries, and the number of order
\* frames received so far.
OrderIdOfFrame(n) == 1 + ((n - 1) % 2)

OrderFramesSoFar == IF clock < MaxOrderBurst THEN clock ELSE MaxOrderBurst

\* The raw buffers are newest-first in arrival order: the k-th entry of a buffer is the
\* k-th latest frame of its kind (the n-th frame of the trade burst carries the trade
\* id MaxOrderBurst + n).
NewestFirst ==
  /\ \A k \in DOMAIN orderUpdates :
       orderUpdates[k].order_id = OrderIdOfFrame(OrderFramesSoFar - k + 1)
  /\ \A k \in DOMAIN newTrades : newTrades[k].trade_id = clock - k + 1

\* Inserting at the head of a buffer of capacity cap, dropping the oldest if full.
Inserted(buf, new, cap) ==
  /\ Len(new) = (IF Len(buf) = cap THEN cap ELSE Len(buf) + 1)
  /\ SubSeq(new, 2, Len(new)) = SubSeq(buf, 1, Len(new) - 1)

\* C20: the order-update buffer never holds more than 50 entries and the raw trade
\* buffer never more than 200, both newest-first; a frame is inserted at the head, and
\* when the buffer is full its oldest entry is dropped.
C20_RawBuffersBounded ==
  /\ [](/\ Len(orderUpdates) <= OrderUpdatesCap
         /\ Len(newTrades) <= RawTradesCap
         /\ NewestFirst)
  /\ [][/\ (FrameStep /\ lastFrame'.type = "order_update") =>
              /\ Inserted(orderUpdates, orderUpdates', OrderUpdatesCap)
              /\ orderUpdates'[1].order_id = lastFrame'.order_id
        /\ (FrameStep /\ lastFrame'.type = "new_trade") =>
              /\ Inserted(newTrades, newTrades', RawTradesCap)
              /\ newTrades'[1].trade_id = lastFrame'.trade_id]_vars

\* C20 witness: both bursts were delivered, each two frames longer than its buffer;
\* both buffers are full: the first two frames of each burst were dropped.
C20_Witness ==
  /\ clock = MaxOrderBurst + MaxTradeBurst
  /\ Len(orderUpdates) = OrderUpdatesCap
  /\ Len(newTrades) = RawTradesCap
  /\ newTrades[RawTradesCap].trade_id = MaxOrderBurst + 3
  /\ newTrades[1].trade_id = MaxOrderBurst + MaxTradeBurst
  /\ orderUpdates[OrderUpdatesCap].order_id = OrderIdOfFrame(3)
  /\ orderUpdates[1].order_id = OrderIdOfFrame(MaxOrderBurst)

\* C21: in every row the panel shows, p is the live price if there is one, else the
\* price of the most recent history sample; open is the live open if there is one,
\* else the price of the earliest history sample; the change is p - open when both
\* are known and 0 otherwise. open 100 with p 105 gives change 5 and percent 5; no
\* open, no history and p 50 give change 0 and percent 0.
C21_DayChange ==
  /\ \A s \in DOMAIN panel :
       LET r == panel[s]
           n == Len(r.hist)
           p == IF r.live.price # NULL THEN r.live.price
                ELSE IF n > 0 THEN r.hist[n].price ELSE NULL
           open == IF r.live.open # NULL THEN r.live.open
                   ELSE IF n > 0 THEN r.hist[1].price ELSE NULL
       IN /\ r.p = p
          /\ r.open = open
          /\ r.changeDay = IF p # NULL /\ open # NULL THEN p - open ELSE 0
  /\ LET r == DayChange([price |-> 105, prev |-> NULL, open |-> 100], <<>>)
     IN r.changeDay = 5 /\ r.pctNum = 5 * r.denom
  /\ LET r == DayChange([price |-> 50, prev |-> NULL, open |-> NULL], <<>>)
     IN r.changeDay = 0 /\ r.pctNum = 0

\* C21 witness: a row whose open comes from the earliest of three history samples and
\* whose p is the live price.
C21_Witness ==
  /\ "A" \in DOMAIN panel
  /\ panel["A"].live.open = NULL
  /\ panel["A"].live.price = 105
  /\ Len(panel["A"].hist) = 3
  /\ panel["A"].open = 1
  /\ panel["A"].changeDay = 104

\* C22: in every row the panel shows, the denominator of the percent is open when
\* open is known and not zero, else p when p is known and not zero, else 1; it is
\* never zero.
C22_DenominatorNeverZero ==
  \A s \in DOMAIN panel :
    LET r == panel[s]
    IN /\ r.denom = IF r.open # NULL /\ r.open # 0 THEN r.open
                    ELSE IF r.p # NULL /\ r.p # 0 THEN r.p ELSE 1
       /\ r.denom # 0

\* C22 witness: a row with open 0 and p 50, whose denominator is 50.
C22_Witness ==
  /\ "A" \in DOMAIN panel
  /\ panel["A"].open = 0
  /\ panel["A"].p = 50
  /\ panel["A"].denom = 50

\* C23: at most one highlight-clear timer is pending at any time; a run of the
\* highlight effect cancels every timer that was pending before it and leaves only
\* its own; after teardown no highlight-clear timer is pending.
C23_OneHighlightTimer ==
  /\ [](Cardinality(hlTimers) <= 1)
  /\ [][HighlightRun =>
          /\ \A t \in hlTimers : t \notin hlTimers'
          /\ Cardinality(hlTimers') = 1]_vars
  /\ [](phase = "torn" => hlTimers = {})

\* C23 witness: two order updates were processed and the component was torn down
\* before the timer of the second one was due: the highlight is still set and no
\* timer is pending.
C23_Witness ==
  /\ phase = "torn"
  /\ Len(orderUpdates) = 2
  /\ "orderUpdates" \notin dirty
  /\ hlLast.id = 2
  /\ time < hlLast.due
  /\ highlightId # NULL
  /\ hlTimers = {}

\* The live samples of a history: those recorded by the history effect.
LiveSamples(h) == {k \in DOMAIN h : h[k].timestamp >= 0}

\* C24: a price_update for s appends one sample to the history of s and to no other:
\* a symbol that has received one price_update (its previous price is still none)
\* has at most one live sample in its history, whatever the other symbols received.
C24_OnlyOwnHistory ==
  \A x \in DOMAIN prices :
    prices[x].prev = NULL => Cardinality(LiveSamples(GetOr(historyBySymbol, x))) <= 1

\* The samples of a history, as a set.
SamplesOf(h) == {h[k] : k \in DOMAIN h}

\* C26: when the seed is applied, every live sample recorded before it, of every
\* symbol, in the ticker snapshot or not, is still in that symbol's history.
C26_SeedKeepsLiveSamples ==
  [][SeedStep =>
       \A s \in DOMAIN historyBySymbol :
         \A x \in SamplesOf(historyBySymbol[s]) :
           x.timestamp >= 0 => x \in SamplesOf(GetOr(historyBySymbol', s))]_vars

\* C25: with the r-th fetch of the orders answered by r rows, once every fetch in
\* flight has completed the displayed orders are the answer to the most recently
\* issued fetch, and no completion replaces the displayed answer by an older one.
C25_LatestIssuedWins ==
  /\ []((Live /\ ordersInFlight = {} /\ ordersIssued > 0) => orders = AnswerTo(ordersIssued))
  /\ [][OrdersCompletionStep => Len(orders') >= Len(orders)]_vars

\* The transports that are open or connecting.
ActiveTransports == {i \in SockIds : sock[i] \in {"open", "connecting"}}

\* C27: in every reachable state, across start, open, error, close, reconnect-timer
\* firing, teardown and restart, at most one transport is open or connecting, at most
\* one reconnect timer is pending, and no reconnect timer is pending while a
\* transport is open or connecting.
C27_SingleChannel ==
  /\ Cardinality(ActiveTransports) <= 1
  /\ Cardinality(timers) <= 1
  /\ timers # {} => ActiveTransports = {}

\* The ids of a trade list, as a set.
IdSet(ts) == {ts[k].trade_id : k \in DOMAIN ts}

\* C28: with the stream's trades numbered in order of arrival, every trade a merge
\* adds to the displayed list arrived after every trade displayed before it: a merge
\* adds only trades that arrived since the previous merge and never one that
\* truncation dropped.
C28_DroppedStaysDropped ==
  [][MergeStep =>
       \A id \in IdSet(trades') \ IdSet(trades) :
         \A old \in IdSet(trades) : id > old]_vars
====
